---- MODULE Spec2Model ----
(***************************************************************************)
(* Model of epic_module.py (EPIC log import): threshold_sampling,          *)
(* accumulated_sampling, growth_time and resampling (resample_method       *)
(* 'diff', the default; the time-based branch is not modelled).            *)
(*                                                                         *)
(* A DataFrame is a record [columns, rows, grow, name]; a row is [Date, v] *)
(* with v the sequence of its cells in column order; grow and name are the *)
(* attributes the code sets on the object.  Numeric cells are fixed-point  *)
(* integers in hundredths (1005 is 10.05) and changes are exact rationals, *)
(* NaN or +-inf.  A column name is a sequence of fragments and a Message a *)
(* sequence of words, so that a regex search, the removal of a suffix and  *)
(* the split of a message are computed.  Dates are distinct and increasing *)
(* (the position of the row in the log file).                              *)
(***************************************************************************)
EXTENDS Integers, Sequences, FiniteSets

VARIABLES pc, df, change, threshold_value, ret,
          dataframe_list, name_list, i, percent_cut, value_cut, calls

vars == <<pc, df, change, threshold_value, ret,
          dataframe_list, name_list, i, percent_cut, value_cut, calls>>

\* ---------------------------------------------------------------- bounds
\* rows of a numeric table, of a two-column table, of an event log; series of a batch
MaxLen == 4
MaxCols2Len == 2
MaxRows == 6
MaxSeries == 3

\* ------------------------------------------------------- numbers (floats)
\* A float is finite n/d (d > 0), NaN, +inf or -inf.
Fin(n, d) == [k |-> "fin", n |-> n, d |-> d]
NaN == [k |-> "nan", n |-> 0, d |-> 1]
PInf == [k |-> "pinf", n |-> 0, d |-> 1]
NInf == [k |-> "ninf", n |-> 0, d |-> 1]

Abs(x) == IF x < 0 THEN -x ELSE x

\* a threshold is a rational [n, d], d > 0
Th(n, d) == [n |-> n, d |-> d]

\* x >= th, as Python compares floats (every comparison with NaN is False)
GE(x, th) ==
    CASE x.k = "fin" -> x.n * th.d >= th.n * x.d
      [] x.k = "pinf" -> TRUE
      [] OTHER -> FALSE

\* x != 0 (NaN != 0 is True)
NotZero(x) == IF x.k = "fin" THEN x.n # 0 ELSE TRUE

\* abs(x)
FAbs(x) ==
    CASE x.k = "fin" -> Fin(Abs(x.n), x.d)
      [] x.k = "ninf" -> PInf
      [] OTHER -> x

\* Series([prev, cur]).pct_change()[1] == cur / prev - 1   (cells in hundredths)
pct_change(prev, cur) ==
    IF prev = 0
    THEN (IF cur = 0 THEN NaN ELSE IF cur > 0 THEN PInf ELSE NInf)
    ELSE IF prev > 0 THEN Fin(cur - prev, prev) ELSE Fin(prev - cur, -prev)

\* Series([prev, cur]).diff()[1] == cur - prev   (cells in hundredths)
diff(prev, cur) == Fin(cur - prev, 100)

Change(mode, prev, cur) ==
    IF mode = "relative" THEN pct_change(prev, cur) ELSE diff(prev, cur)

\* x.round(1) for x >= 0, as a number of tenths: numpy computes rint(x * 10) / 10
\* on the binary float, so a value that is exactly halfway in the rationals goes
\* up or down with the float's representation error: up is that outcome.
RoundTenths(x, up) ==
    LET q == (10 * x.n) \div x.d
        r == (10 * x.n) % x.d
    IN  IF 2 * r < x.d THEN q
        ELSE IF 2 * r > x.d THEN q + 1
        ELSE IF up THEN q + 1 ELSE q

\* -------------------------------------------------------------- DataFrame
\* the status strings assigned to df.grow
Unset == [kind |-> "unset", n |-> 0, names |-> <<>>]
NoMessageError == [kind |-> "Error: No Message log detected", n |-> 0, names |-> <<>>]
DuplicateNameError == [kind |-> "Error: You use the same name", n |-> 0, names |-> <<>>]
UnmatchedCountError == [kind |-> "The number of growth events is not equal", n |-> 0, names |-> <<>>]
SingleGrowth == [kind |-> "Single Growth detected.", n |-> 0, names |-> <<>>]
NoGrowth == [kind |-> "No growth detected.", n |-> 0, names |-> <<>>]
\* str(n) + ' growths detected with the names ' + ','.join(names) + '.'
NGrowths(n, names) == [kind |-> "growths detected with the names", n |-> n, names |-> names]

\* a new DataFrame object: the attributes grow and name of the object it was
\* computed from are not carried over
DataFrame(columns, rows) ==
    [columns |-> columns, rows |-> rows, grow |-> Unset, name |-> "unset"]

\* ------------------------------------------------------------ column names
RECURSIVE RemoveFragment(_, _)
\* name.str.replace(frag, '', regex=True)
RemoveFragment(name, frag) ==
    IF name = <<>> THEN <<>>
    ELSE IF Head(name) = frag THEN RemoveFragment(Tail(name), frag)
    ELSE <<Head(name)>> \o RemoveFragment(Tail(name), frag)

\* re.search(alternatives, name)
Matches(name, alternatives) == \E p \in 1..Len(name) : name[p] \in alternatives

\* df.filter(regex=...).columns.values.tolist() is non-empty
FilterRegex(d, alternatives) ==
    \E c \in 1..Len(d.columns) : Matches(d.columns[c], alternatives)

PressurePattern == {"IG", "MIG", "PG"}
TemperaturePattern == {"PID", "Pyro"}

\* ------------------------------------------------------------- sequences
RECURSIVE SelectIdx(_, _, _)
\* the indices p in from..Len of a boolean sequence keep with keep[p], in order
SelectIdx(keep, from, n) ==
    IF from > n THEN <<>>
    ELSE (IF keep[from] THEN <<from>> ELSE <<>>) \o SelectIdx(keep, from + 1, n)

Pick(s, idx) == [p \in 1..Len(idx) |-> s[idx[p]]]

\* ----------------------------------------------------- threshold_sampling
\* the change columns df.pct_change() / df.diff(): row 1 is NaN
ChangeFrame(d, mode) ==
    [r \in 1..Len(d.rows) |->
        [c \in 1..Len(d.columns) |->
            IF r = 1 THEN NaN
            ELSE Change(mode, d.rows[r - 1].v[c], d.rows[r].v[c])]]

\* column 1 (iloc[:, 1]) of the merged frame NAME_x.., NAME_y.. after fillna:
\* the change column of a one-column table, the raw second value column otherwise
Iloc1(d, chg, r, th) ==
    IF Len(d.columns) = 1
    THEN (IF chg[r][1].k = "nan" THEN Fin(th.n + th.d, th.d) ELSE chg[r][1])
    ELSE Fin(d.rows[r].v[2], 100)

threshold_sampling(d, mode, th) ==
    LET chg == ChangeFrame(d, mode)
        n == Len(d.rows)
        \* .loc[(change != 0).any(axis=1)] and then df[df.iloc[:, 1] >= th]
        keep == [r \in 1..n |->
                    /\ \E c \in 1..Len(d.columns) : NotZero(chg[r][c])
                    /\ GE(Iloc1(d, chg, r, th), th)]
        idx == SelectIdx(keep, 1, n)
    IN  DataFrame(<<RemoveFragment(d.columns[1] \o <<"_x">>, "_x")>>,
                  [p \in 1..Len(idx) |->
                     [Date |-> d.rows[idx[p]].Date, v |-> <<d.rows[idx[p]].v[1]>>]])

\* --------------------------------------------------- accumulated_sampling
\* the value compared with threshold_value in iteration j
Condition(mode, base, cur, up) ==
    LET a == FAbs(Change(mode, base, cur))
    IN  IF a.k # "fin" THEN a
        ELSE IF mode = "relative"
             THEN Fin(RoundTenths(a, up) * 10, 1)      \* .round(1) * 100
             ELSE Fin(RoundTenths(a, up), 10)          \* .round(1)

RECURSIVE AccLoop(_, _, _, _, _, _)
\* for j in range(len(df)): the rows of dataframe_change after iterations j..n
AccLoop(d, mode, th, tie, dc, j) ==
    IF j > Len(d.rows) THEN dc
    ELSE LET cond == Condition(mode, dc[Len(dc)].v[1], d.rows[j].v[1], tie[j])
         IN  AccLoop(d, mode, th, tie,
                     IF GE(cond, th) THEN Append(dc, d.rows[j]) ELSE dc,
                     j + 1)

RECURSIVE JoinRows(_, _, _)
\* df.join(dataframe_change), drop of the first column, dropna(axis=0)
JoinRows(rows, dc, r) ==
    IF r > Len(rows) THEN <<>>
    ELSE LET hit == SelectIdx([p \in 1..Len(dc) |-> dc[p].Date = rows[r].Date],
                              1, Len(dc))
         IN  [p \in 1..Len(hit) |->
                 [Date |-> rows[r].Date, v |-> Tail(rows[r].v) \o dc[hit[p]].v]]
             \o JoinRows(rows, dc, r + 1)

\* the join run against dataframe_change without its first row (the seed)
JoinDropnaWithoutSeed(d, dc) ==
    DataFrame(Tail(d.columns)
                \o [c \in 1..Len(d.columns) |->
                       RemoveFragment(d.columns[c] \o <<"_change">>, "_change")],
              JoinRows(d.rows, Tail(dc), 1))

JoinDropna(d, dc) ==
    DataFrame(Tail(d.columns)
                \o [c \in 1..Len(d.columns) |->
                       RemoveFragment(d.columns[c] \o <<"_change">>, "_change")],
              JoinRows(d.rows, dc, 1))

accumulated_sampling(d, mode, th, tie) ==
    IF d.rows = <<>> THEN d
    ELSE JoinDropna(d, AccLoop(d, mode, th, tie, <<d.rows[1]>>, 1))

\* ------------------------------------------------------------ growth_time
\* a Message cell is the sequence of its words
\* msg.str.contains('moved from')
ContainsMovedFrom(msg) ==
    \E p \in 1..(Len(msg) - 1) : msg[p] = "moved" /\ msg[p + 1] = "from"

\* msg.str.contains('Mirror')
ContainsMirror(msg) == \E p \in 1..Len(msg) : msg[p] = "Mirror"

\* the position of the first ' moved from ' in a message
FirstMovedFrom(msg) ==
    CHOOSE p \in 1..(Len(msg) - 1) :
        /\ msg[p] = "moved" /\ msg[p + 1] = "from"
        /\ \A q \in 1..(p - 1) : ~(msg[q] = "moved" /\ msg[q + 1] = "from")

\* the position of the first ' to ' in the text after ' moved from '
FirstTo(rest) ==
    CHOOSE p \in 1..Len(rest) : rest[p] = "to" /\ \A q \in 1..(p - 1) : rest[q] # "to"

\* Message.str.split(' moved from ') and then from.str.split(' to '):
\* the cells object, from, to of a row
SplitMessage(msg) ==
    LET m == FirstMovedFrom(msg)
        rest == SubSeq(msg, m + 2, Len(msg))
        t == FirstTo(rest)
    IN  <<SubSeq(msg, 1, m - 1), SubSeq(rest, 1, t - 1), SubSeq(rest, t + 1, Len(rest))>>

RECURSIVE Distinct(_)
\* the distinct elements of a sequence in the order of their first occurrence
Distinct(s) ==
    IF s = <<>> THEN <<>>
    ELSE LET front == Distinct(SubSeq(s, 1, Len(s) - 1))
             last == s[Len(s)]
         IN  IF \E p \in 1..Len(front) : front[p] = last THEN front
             ELSE Append(front, last)

Count(s, x) == Cardinality({p \in 1..Len(s) : s[p] = x})

RECURSIVE ByCount(_, _, _)
\* the names with count c, c - 1, .., 1, each group in first-occurrence order
ByCount(s, names, c) ==
    IF c = 0 THEN <<>>
    ELSE LET keep == [p \in 1..Len(names) |-> Count(s, names[p]) = c]
         IN  Pick(names, SelectIdx(keep, 1, Len(names))) \o ByCount(s, names, c - 1)

\* df['object'].value_counts(): <<name, count>> by descending count
value_counts(objects) ==
    LET names == ByCount(objects, Distinct(objects), Len(objects))
    IN  [p \in 1..Len(names) |-> [name |-> names[p], count |-> Count(objects, names[p])]]

\* the prints of the branch len(df.index) == 2
SinglePrints(rows) ==
    <<[text |-> "Start of the Growth: ", object |-> <<>>, Date |-> rows[1].Date],
      [text |-> "End of the Growth: ", object |-> <<>>, Date |-> rows[Len(rows)].Date]>>

\* the loop with step 1, range(0, len(df.index) - 1): pairs (0,1), (1,2), ...
GrowthPairsStepOne(n) == [k \in 1..(n - 1) |-> <<k, k + 1>>]

\* for i in range(0, len(df.index), 2): the rows (start, end) of each printed pair
GrowthPairs(n) == [k \in 1..(n \div 2) |-> <<2 * k - 1, 2 * k>>]

\* the prints of the branch len(df.index) % 2 == 0
PairPrints(rows) ==
    LET pairs == GrowthPairs(Len(rows))
    IN  [p \in 1..(2 * Len(pairs)) |->
            LET k == (p + 1) \div 2
                r == IF p % 2 = 1 THEN pairs[k][1] ELSE pairs[k][2]
            IN  [text |-> IF p % 2 = 1 THEN "Start of the Growth " ELSE "End of the Growth ",
                 object |-> rows[r].v[1], Date |-> rows[r].Date]]

\* the status str(value_counts()[0]) + ' growths detected with the names ' + ...
GrowthsStatus(vc) == NGrowths(vc[1].count, [p \in 1..Len(vc) |-> vc[p].name])

\* growth_time(df): [df: the returned frame, printed: the lines printed before
\* print(df.grow), raised: print(df.grow) raised AttributeError (no attribute grow)]
growth_time(d) ==
    LET \* df.drop(df.columns[[0, 2]], axis=1, inplace=True): the same object
        msgs == [r \in 1..Len(d.rows) |->
                    [Date |-> d.rows[r].Date, v |-> <<d.rows[r].v[2]>>]]
        dropped == [d EXCEPT !.columns = <<d.columns[2]>>, !.rows = msgs]
        anyMoved == \E r \in 1..Len(msgs) : ContainsMovedFrom(msgs[r].v[1])
        keep == [r \in 1..Len(msgs) |->
                    ContainsMovedFrom(msgs[r].v[1]) /\ ~ContainsMirror(msgs[r].v[1])]
        moved == Pick(msgs, SelectIdx(keep, 1, Len(msgs)))
        split == [r \in 1..Len(moved) |->
                    [Date |-> moved[r].Date, v |-> SplitMessage(moved[r].v[1])]]
        objects == [r \in 1..Len(split) |-> split[r].v[1]]
        vc == value_counts(objects)
        frame == DataFrame(<<<<"object">>, <<"from">>, <<"to">>>>, split)
        out ==
            IF ~anyMoved THEN [df |-> dropped, printed |-> <<>>]
            ELSE IF moved = <<>>
            THEN [df |-> [DataFrame(dropped.columns, <<>>) EXCEPT !.grow = NoGrowth],
                  printed |-> <<>>]
            ELSE IF \E p \in 1..Len(vc) : vc[p].count # 2
            THEN [df |-> [frame EXCEPT !.grow =
                            IF \E p \in 1..Len(vc) : vc[p].count > 1
                            THEN DuplicateNameError ELSE UnmatchedCountError],
                  printed |-> <<>>]
            ELSE LET \* if len(df.index) == 2: ...
                     single == Len(split) = 2
                     g1 == IF single THEN SingleGrowth ELSE frame.grow
                     \* if len(df.index) % 2 == 0: ...
                     even == Len(split) % 2 = 0
                     g2 == IF even THEN GrowthsStatus(vc) ELSE g1
                 IN  [df |-> [frame EXCEPT !.grow = g2],
                      printed |-> (IF single THEN SinglePrints(split) ELSE <<>>)
                                  \o (IF even THEN PairPrints(split) ELSE <<>>)]
    IN  [df |-> out.df, printed |-> out.printed, raised |-> out.df.grow = Unset]

\* ------------------------------------------------------------- resampling
\* threshold_sampling's default threshold_value=0.01
DefaultThreshold == Th(1, 100)

\* threshold_sampling and then accumulated_sampling, as both branches of
\* "if resample_method == 'diff'" call them
SamplerPair(d, mode, cut, tie) ==
    accumulated_sampling(threshold_sampling(d, mode, DefaultThreshold), mode, cut, tie)

\* dataframe_list[-1].grow = 'Error: No Message log detected, ...'
AttachNoMessage(list) == [list EXCEPT ![Len(list)].grow = NoMessageError]

\* dataframe_list[i].name = name_list[i]
RestoreName(list, at, name) == [list EXCEPT ![at].name = name]

\* ----------------------------------------------------------------- inputs
Modes == {"relative", "absolute"}

\* readings in hundredths: 0, 10.0, 10.05, 10.5, 11.0
Vals == {0, 1000, 1005, 1050, 1100}

SeqsUpTo(S, n) == UNION {[1..m -> S] : m \in 0..n}

\* a frame as epiclog_read builds it: Date is the index, name is set
Loaded(columns, cells) ==
    [DataFrame(columns, [r \in 1..Len(cells) |-> [Date |-> r, v |-> cells[r]]])
        EXCEPT !.name = "log"]

OneColumnFrames ==
    {Loaded(<<<<"IG">>>>, [r \in 1..Len(s) |-> <<s[r]>>]) : s \in SeqsUpTo(Vals, MaxLen)}

TwoColumnFrames ==
    {Loaded(<<<<"IG">>, <<"PID">>>>, s) :
        s \in SeqsUpTo({<<a, b>> : a, b \in {0, 1000, 1100}}, MaxCols2Len)}

\* threshold_value: the default 0.01, 0.5, 0
ThresholdSamplingThresholds == {Th(1, 100), Th(1, 2), Th(0, 1)}

\* threshold_value: 2, percent_cut 0.5, value_cut 0.2, 0
AccumulatedSamplingThresholds == {Th(2, 1), Th(1, 2), Th(1, 5), Th(0, 1), Th(-1, 1)}

\* the Message cells of an event log
Msgs ==
    {<<"A", "moved", "from", "GC", "to", "MC">>,
     <<"B", "moved", "from", "GC", "to", "MC">>,
     <<"C", "moved", "from", "MC", "to", "GC">>,
     <<"Mirror", "moved", "from", "in", "to", "out">>,
     <<"Shutter", "opened">>}

EventLogColumns == <<<<"CallerID">>, <<"Message">>, <<"Color">>>>

EventLog(msgs) ==
    Loaded(EventLogColumns, [r \in 1..Len(msgs) |-> <<"EPIC", msgs[r], "Black">>])

EventLogs == {EventLog(s) : s \in SeqsUpTo(Msgs, MaxRows)}

\* the series of a batch: one-column and two-column readings, event logs
BatchSeries ==
    {Loaded(<<name>>, <<<<1000>>, <<1005>>, <<1100>>>>) :
        name \in {<<"IG">>, <<"PID">>, <<"PID", "IG">>, <<"Flux">>}}
    \cup {Loaded(cols, <<<<1000, 0>>, <<1100, 1000>>>>) :
        cols \in {<<<<"IG">>, <<"PID">>>>, <<<<"PID">>, <<"IG">>>>}}
    \cup {EventLog(s) : s \in {<<>>, <<<<"Shutter", "opened">>>>,
                               <<<<"A", "moved", "from", "GC", "to", "MC">>,
                                 <<"A", "moved", "from", "MC", "to", "GC">>>>}}

Idle ==
    /\ dataframe_list = <<>>
    /\ name_list = <<>>
    /\ i = 0
    /\ percent_cut = Th(1, 2)
    /\ value_cut = Th(1, 5)
    /\ calls = <<>>

\* ------------------------------------- specification: threshold_sampling
InitTS ==
    /\ pc = "call"
    /\ df \in OneColumnFrames \cup TwoColumnFrames
    /\ change \in Modes
    /\ threshold_value \in ThresholdSamplingThresholds
    /\ ret = <<>>
    /\ Idle

TS_Call ==
    /\ pc = "call"
    /\ ret' = threshold_sampling(df, change, threshold_value)
    /\ pc' = "done"
    /\ UNCHANGED <<df, change, threshold_value, dataframe_list, name_list, i,
                   percent_cut, value_cut, calls>>

NextTS == TS_Call

SpecTS == InitTS /\ [][NextTS]_vars

\* ----------------------------------- specification: accumulated_sampling
InitAS ==
    /\ pc = "call"
    /\ df \in OneColumnFrames
    /\ change \in Modes
    /\ threshold_value \in AccumulatedSamplingThresholds
    /\ ret = <<>>
    /\ Idle

AS_Call ==
    /\ pc = "call"
    /\ \E tie \in [1..Len(df.rows) -> BOOLEAN] :
          ret' = accumulated_sampling(df, change, threshold_value, tie)
    /\ pc' = "done"
    /\ UNCHANGED <<df, change, threshold_value, dataframe_list, name_list, i,
                   percent_cut, value_cut, calls>>

NextAS == AS_Call

SpecAS == InitAS /\ [][NextAS]_vars

\* -------------------------------------------- specification: growth_time
\* df.grow is unset on a loaded frame; resampling may have set it before the call
InitGT ==
    /\ pc = "call"
    /\ df \in EventLogs \cup {[d EXCEPT !.grow = NoMessageError] : d \in EventLogs}
    /\ change = "none"
    /\ threshold_value = Th(0, 1)
    /\ ret = <<>>
    /\ Idle

GT_Call ==
    /\ pc = "call"
    /\ ret' = growth_time(df)
    /\ pc' = IF ret'.raised THEN "raised" ELSE "done"
    /\ UNCHANGED <<df, change, threshold_value, dataframe_list, name_list, i,
                   percent_cut, value_cut, calls>>

NextGT == GT_Call

SpecGT == InitGT /\ [][NextGT]_vars

\* --------------------------------------------- specification: resampling
\* resample_method = 'diff'.  i is the loop index (0-based as in the code) and pc
\* the place in the loop body: before the pressure test, before the temperature
\* test, before the Message test.  calls[s] records, for the series at index
\* s - 1, its columns on entry and the sampler pairs that ran on it.
InitRS ==
    /\ pc = "pressure"
    /\ dataframe_list \in UNION {[1..m -> BatchSeries] : m \in 1..MaxSeries}
    /\ name_list = <<>>
    /\ i = 0
    /\ percent_cut = Th(1, 2)
    /\ value_cut = Th(1, 5)
    /\ calls = <<>>
    /\ df = <<>>
    /\ change = "none"
    /\ threshold_value = Th(0, 1)
    /\ ret = <<>>

\* the series the loop body works on
Current == dataframe_list[i + 1]

\* dataframe_list[i].columns.size < 3, tested once on entry
Narrow == Len(calls[i + 1].columns) < 3

RS_Pressure ==
    /\ pc = "pressure"
    /\ i < Len(dataframe_list)
    /\ name_list' = Append(name_list, Current.name)
    /\ IF Len(Current.columns) < 3 /\ FilterRegex(Current, PressurePattern)
       THEN /\ \E tie \in [1..Len(Current.rows) -> BOOLEAN] :
                 dataframe_list' = [dataframe_list EXCEPT
                     ![i + 1] = SamplerPair(Current, "relative", percent_cut, tie)]
            /\ calls' = Append(calls, [columns |-> Current.columns, ran |-> <<"relative">>])
       ELSE /\ calls' = Append(calls, [columns |-> Current.columns, ran |-> <<>>])
            /\ UNCHANGED dataframe_list
    /\ pc' = "temperature"
    /\ UNCHANGED <<df, change, threshold_value, ret, i, percent_cut, value_cut>>

RS_Temperature ==
    /\ pc = "temperature"
    /\ IF Narrow /\ FilterRegex(Current, TemperaturePattern)
       THEN /\ \E tie \in [1..Len(Current.rows) -> BOOLEAN] :
                 dataframe_list' = [dataframe_list EXCEPT
                     ![i + 1] = SamplerPair(Current, "absolute", value_cut, tie)]
            /\ calls' = [calls EXCEPT ![i + 1].ran = Append(@, "absolute")]
       ELSE UNCHANGED <<dataframe_list, calls>>
    /\ pc' = "message"
    /\ UNCHANGED <<df, change, threshold_value, ret, name_list, i, percent_cut, value_cut>>

RS_Message ==
    /\ pc = "message"
    /\ IF FilterRegex(Current, {"Message"})
       THEN /\ ret' = growth_time(Current)
            /\ IF ret'.raised
               THEN /\ dataframe_list' = [dataframe_list EXCEPT ![i + 1] = ret'.df]
                    /\ pc' = "raised"
                    /\ i' = i
               ELSE /\ dataframe_list' = RestoreName(
                          [dataframe_list EXCEPT ![i + 1] = ret'.df], i + 1, name_list[i + 1])
                    /\ pc' = "pressure"
                    /\ i' = i + 1
       ELSE /\ dataframe_list' = RestoreName(AttachNoMessage(dataframe_list), i + 1,
                                             name_list[i + 1])
            /\ pc' = "pressure"
            /\ i' = i + 1
            /\ UNCHANGED ret
    /\ UNCHANGED <<df, change, threshold_value, name_list, percent_cut, value_cut, calls>>

RS_Return ==
    /\ pc = "pressure"
    /\ i = Len(dataframe_list)
    /\ pc' = "returned"
    /\ UNCHANGED <<df, change, threshold_value, ret, dataframe_list, name_list, i,
                   percent_cut, value_cut, calls>>

NextRS == RS_Pressure \/ RS_Temperature \/ RS_Message \/ RS_Return

SpecRS == InitRS /\ [][NextRS]_vars

\* ================================================================= claims
Dates(d) == {d.rows[p].Date : p \in 1..Len(d.rows)}

\* ---- threshold_sampling
\* the change of row r against row r - 1 of the one-column table df
RowChange(r) == Change(change, df.rows[r - 1].v[1], df.rows[r].v[1])

\* C1: on a one-column table, threshold_sampling retains row 0, and retains a
\* row r > 0 exactly when its change against the previous row is non-zero and
\* the magnitude of the change is >= threshold_value (a decrease like an increase).
C1_RetainedByMagnitude ==
    (pc = "done" /\ Len(df.columns) = 1) =>
        \A r \in 1..Len(df.rows) :
            \/ r > 1 /\ RowChange(r).k # "fin"
            \/ (df.rows[r].Date \in Dates(ret)) <=>
                  (r = 1 \/ (RowChange(r).n # 0 /\ GE(FAbs(RowChange(r)), threshold_value)))

\* ---- accumulated_sampling
RECURSIVE ClaimedWalk(_, _, _, _, _)
\* the positions retained by the walk of C2: percent change against the last
\* retained row, rounded to one decimal place, compared with the threshold
ClaimedWalk(cells, th, tie, base, j) ==
    IF j > Len(cells) THEN {}
    ELSE LET pct == Fin(100 * Abs(cells[j] - cells[base]), Abs(cells[base]))
             hit == GE(Fin(RoundTenths(pct, tie[j]), 10), th)
         IN  (IF hit THEN {j} ELSE {})
             \cup ClaimedWalk(cells, th, tie, IF hit THEN j ELSE base, j + 1)

\* C2: in relative mode accumulated_sampling retains row 0 and the rows whose
\* percent change against the last retained row, rounded to one decimal place,
\* is >= threshold_value; for 10.0, 10.05, 10.5, 11.0 and threshold 2 it
\* retains exactly the rows t0, t2, t3.
C2_PercentWalk ==
    (pc = "done" /\ change = "relative" /\ df.rows # <<>>
        /\ \A r \in 1..Len(df.rows) : df.rows[r].v[1] # 0) =>
        LET cells == [r \in 1..Len(df.rows) |-> df.rows[r].v[1]]
        IN  /\ \E tie \in [1..Len(cells) -> BOOLEAN] :
                  Dates(ret) = {1} \cup ClaimedWalk(cells, threshold_value, tie, 1, 2)
            /\ (cells = <<1000, 1005, 1050, 1100>> /\ threshold_value = Th(2, 1))
                  => Dates(ret) = {1, 3, 4}

\* C8: accumulated_sampling keeps row 0 of a non-empty table, with its Date and
\* its values, in the output, for every mode and threshold; it returns an empty
\* table unchanged.
C8_SeedRetained ==
    pc = "done" =>
        IF df.rows = <<>> THEN ret = df
        ELSE \E p \in 1..Len(ret.rows) : ret.rows[p] = df.rows[1]

\* a call that dropped rows of a table of three rows or more and kept the seed
C8_Witness ==
    /\ pc = "done"
    /\ Len(df.rows) >= 3
    /\ threshold_value.n > 0
    /\ Len(ret.rows) < Len(df.rows)
    /\ ret.rows[1] = df.rows[1]

\* ---- growth_time
\* the qualifying rows of the log df: 'moved from' rows that do not mention the Mirror
Qualifying ==
    LET keep == [r \in 1..Len(df.rows) |->
                    ContainsMovedFrom(df.rows[r].v[2]) /\ ~ContainsMirror(df.rows[r].v[2])]
    IN  Pick(df.rows, SelectIdx(keep, 1, Len(df.rows)))

\* the object names of the qualifying rows, in row order
QObjects == [r \in 1..Len(Qualifying) |-> SplitMessage(Qualifying[r].v[2])[1]]

QNames == {QObjects[r] : r \in 1..Len(QObjects)}

Returned == pc \in {"done", "raised"}

AllCountsTwo == QNames # {} /\ \A x \in QNames : Count(QObjects, x) = 2

\* the lines printed by the loop over the pairs
PairLines == SelectSeq(ret.printed, LAMBDA l : l.object # <<>>)

\* C3: two qualifying rows of one object: the status is 'Single Growth
\* detected.' and the reported start and end are the Dates of rows 0 and 1.
C3_SingleGrowthStatus ==
    (Returned /\ Len(QObjects) = 2 /\ Cardinality(QNames) = 1) =>
        /\ ret.df.grow = SingleGrowth
        /\ \E p \in 1..Len(ret.printed) :
              /\ ret.printed[p].text = "Start of the Growth: "
              /\ ret.printed[p].Date = Qualifying[1].Date
        /\ \E p \in 1..Len(ret.printed) :
              /\ ret.printed[p].text = "End of the Growth: "
              /\ ret.printed[p].Date = Qualifying[2].Date

\* C4: some object occurs exactly once and no object more than twice: the
\* status is the unmatched start/end counts error.
C4_OddCountStatus ==
    (Returned /\ (\E x \in QNames : Count(QObjects, x) = 1)
              /\ (\A x \in QNames : Count(QObjects, x) <= 2)) =>
        ret.df.grow = UnmatchedCountError

\* C5: a log without qualifying rows: growth_time returns normally with the
\* status 'No growth detected.'
C5_NoGrowthNeverAborts ==
    (Returned /\ Qualifying = <<>>) => (pc = "done" /\ ret.df.grow = NoGrowth)

\* C7: every object in exactly two qualifying rows, more than two rows: the
\* status is 'N growths detected with the names ...' with N the number of
\* distinct names and exactly those names, and the pairs printed are the rows
\* (2k, 2k+1) in row order.
C7_NGrowthsStatus ==
    (Returned /\ AllCountsTwo /\ Len(QObjects) > 2) =>
        /\ ret.df.grow.kind = NGrowths(0, <<>>).kind
        /\ ret.df.grow.n = Cardinality(QNames)
        /\ {ret.df.grow.names[p] : p \in 1..Len(ret.df.grow.names)} = QNames
        /\ Len(ret.df.grow.names) = Cardinality(QNames)
        /\ Len(PairLines) = Len(QObjects)
        /\ \A r \in 1..Len(QObjects) : PairLines[r].Date = Qualifying[r].Date

\* C10 as stated: whenever intervals are reported, the two rows that bound an
\* interval carry the same object name, for every order of the rows.
C10_PairsSameObject ==
    (Returned /\ AllCountsTwo) =>
        \A k \in 1..(Len(PairLines) \div 2) :
            PairLines[2 * k - 1].object = PairLines[2 * k].object

\* the two rows of every object are next to each other in the log
RowsAdjacent ==
    \A r \in 1..Len(QObjects) :
        \E q \in {r - 1, r + 1} \cap (1..Len(QObjects)) : QObjects[q] = QObjects[r]

\* C10 amended: intervals are paired by position, rows (2k, 2k+1); when the two
\* rows of every object are adjacent in the log, each reported interval is
\* bounded by the two rows of one object, and it starts and ends at their Dates.
C10_AdjacentPairsSameObject ==
    (Returned /\ AllCountsTwo /\ RowsAdjacent) =>
        /\ Len(PairLines) = Len(QObjects)
        /\ \A k \in 1..(Len(PairLines) \div 2) :
              /\ PairLines[2 * k - 1].object = PairLines[2 * k].object
              /\ PairLines[2 * k - 1].Date = Qualifying[2 * k - 1].Date
              /\ PairLines[2 * k].Date = Qualifying[2 * k].Date

\* growths of two different objects, one after the other, were reported
C10_Witness ==
    /\ pc = "done"
    /\ AllCountsTwo
    /\ RowsAdjacent
    /\ Cardinality(QNames) >= 2
    /\ Len(PairLines) = Len(QObjects)

\* ---- resampling
\* C6: the step for a series without a Message column attaches the 'No Message
\* log detected' status to that series, goes on to the next series, and leaves
\* the status of every other series as it was.
C6_DiagnosticOnSeries ==
    [][(pc = "message" /\ ~FilterRegex(Current, {"Message"})) =>
          /\ pc' = "pressure"
          /\ i' = i + 1
          /\ dataframe_list'[i + 1].grow = NoMessageError
          /\ \A s \in 1..Len(dataframe_list) :
                s # i + 1 => dataframe_list'[s].grow = dataframe_list[s].grow]_vars

\* C9: every series with fewer than 3 columns whose column names match the
\* pressure and the temperature pattern has, once past both tests, gone through
\* both sampler pairs: the relative one and then the absolute one.
C9_BothSamplersRun ==
    \A s \in 1..Len(calls) :
        LET cols == calls[s].columns
        IN  (/\ s <= i \/ pc \in {"message", "raised"}
             /\ Len(cols) < 3
             /\ \E c \in 1..Len(cols) : Matches(cols[c], PressurePattern)
             /\ \E c \in 1..Len(cols) : Matches(cols[c], TemperaturePattern))
            => calls[s].ran = <<"relative", "absolute">>

====
